---- MODULE Spec2Model ----
(***************************************************************************)
(* Entity extraction and structured-record synthesis of zoo_assistant      *)
(* (core_engine/ner/entity_extraction.py), the mapper to database payloads *)
(* (core_engine/processing_pipeline.py) and the job registry of the API    *)
(* (backend/api/main.py).                                                  *)
(*                                                                         *)
(* A transcript is a sequence of characters.  The three extractors are     *)
(* wrappers around external matchers (the Natasha NER tagger, the Yargy    *)
(* parsers, re.finditer): what those matchers find in a transcript is an   *)
(* input, fixed together with the transcript; what the wrappers, the       *)
(* merge, the forward pass and the feeding join do with it is modelled     *)
(* from the code.  Cyrillic words are written transliterated, one          *)
(* character per element ("tela" is the body marker of line 357).          *)
(***************************************************************************)
EXTENDS Integers, Sequences, FiniteSets, TLC

VARIABLES
    text,       \* the transcript handed to extract_animal_info
    spans,      \* doc.spans: what the NER tagger finds in text
    matches,    \* per parser / pattern: the (start, end) spans it finds in text
    pc,         \* position of the call: "call", "for", "return", "raise"
    entities,   \* local `entities` of extract_animal_info
    idx,        \* number of entities the for loop of line 335 has consumed
    result,     \* local `result` of extract_animal_info (the draft)
    earlier,    \* a draft returned by an earlier call, with its input
    numeric_arg,    \* the match_text handed to _extract_numeric_value
    numeric_ret,    \* how that call ended: not yet, a return value, an exception
    db_records,     \* local `db_records` of ProcessingPipeline.process_audio
    processing_jobs,     \* the job registry of backend/api/main.py
    upload_dir,          \* the files of UPLOAD_DIR, by name
    background_tasks,    \* the process_audio_task calls added and not yet run
    db,                  \* the committed rows of the database
    response,            \* the last response the API has sent
    sessions,       \* per call of save_to_database: its position and session
    threads,        \* per worker thread: the locals of its extract_animal_info
    extractor,      \* the shared EntityExtractor: its parsers and patterns
    instance,       \* the module globals _extractor, _recognizer, _pipeline
    constructed,    \* per class: how many objects have been constructed
    callers         \* per thread that calls a getter: its position

\* the state of the API
api_vars == <<processing_jobs, upload_dir, background_tasks, db, response>>

\* the calls that run side by side: saves, worker threads, getters
concurrent_vars == <<sessions, threads, extractor, instance, constructed, callers>>

\* what a call of extract_animal_info neither reads nor writes
beyond_call == <<numeric_arg, numeric_ret, db_records, api_vars, concurrent_vars>>

\* the input and the locals of a call of extract_animal_info
call_vars == <<text, spans, matches, pc, entities, idx, result, earlier>>

vars ==
    <<text, spans, matches, pc, entities, idx, result, earlier,
      numeric_arg, numeric_ret, db_records,
      processing_jobs, upload_dir, background_tasks, db, response,
      sessions, threads, extractor, instance, constructed, callers>>

(***************************************************************************)
(* Bounds of the model.                                                    *)
(***************************************************************************)
MaxWords == 2        \* words of a transcript over the whole vocabulary
MaxTempWords == 4    \* words of a transcript about temperatures
MaxFeedWords == 4    \* words of a transcript about feeding
MaxIdemWords == 1    \* words of a transcript in the repeated-call runs

(***************************************************************************)
(* Python values.                                                          *)
(***************************************************************************)
None == <<>>
Some(v) == <<v>>

Max(a, b) == IF a >= b THEN a ELSE b
Min(a, b) == IF a <= b THEN a ELSE b
Abs(a) == IF a >= 0 THEN a ELSE 0 - a

\* s[a:b] of Python, 0-based and end-exclusive: a negative index counts from
\* the end of s, and indices beyond either end are clamped.
PySlice(s, a, b) ==
    LET n  == Len(s)
        lo == IF a < 0 THEN Max(0, n + a) ELSE Min(a, n)
        hi == IF b < 0 THEN Max(0, n + b) ELSE Min(b, n)
    IN  SubSeq(s, lo + 1, hi)

\* `w in s` of Python strings
Contains(s, w) ==
    \E k \in 1 .. (Len(s) - Len(w) + 1) : SubSeq(s, k, k + Len(w) - 1) = w

(***************************************************************************)
(* _extract_numeric_value: re.findall(r'\d+[.,]?\d*', match_text), then    *)
(* float(numbers[0].replace(',', '.')).  A float is kept as the decimal    *)
(* it denotes: [m |-> mantissa, e |-> number of fractional digits], with   *)
(* trailing fractional zeros dropped, so 2.5 = 2.50 and 42.0 = 42.         *)
(***************************************************************************)
Digits == {"0", "1", "2", "3", "4", "5", "6", "7", "8", "9"}

DigitVal(c) ==
    CASE c = "0" -> 0 [] c = "1" -> 1 [] c = "2" -> 2 [] c = "3" -> 3
      [] c = "4" -> 4 [] c = "5" -> 5 [] c = "6" -> 6 [] c = "7" -> 7
      [] c = "8" -> 8 [] c = "9" -> 9

\* first position at or after p that holds no digit (\d* from p)
RECURSIVE DigitRunEnd(_, _)
DigitRunEnd(s, p) ==
    IF p <= Len(s) /\ s[p] \in Digits THEN DigitRunEnd(s, p + 1) ELSE p

\* numbers[0]: the leftmost match of \d+[.,]?\d*, or None
FirstNumber(s) ==
    LET ds == {p \in 1 .. Len(s) : s[p] \in Digits}
    IN  IF ds = {} THEN None
        ELSE LET p  == CHOOSE q \in ds : \A r \in ds : q <= r
                 q1 == DigitRunEnd(s, p)
                 q2 == IF q1 <= Len(s) /\ s[q1] \in {".", ","} THEN q1 + 1 ELSE q1
                 q3 == DigitRunEnd(s, q2)
             IN  Some(SubSeq(s, p, q3 - 1))

\* the literal handed to float() as it is, commas included
ReplaceComma_Forgotten(s) == s

\* str.replace(',', '.')
ReplaceComma(s) == [k \in 1 .. Len(s) |-> IF s[k] = "," THEN "." ELSE s[k]]

RECURSIVE IntOf(_)
IntOf(ds) ==
    IF ds = <<>> THEN 0
    ELSE 10 * IntOf(SubSeq(ds, 1, Len(ds) - 1)) + DigitVal(ds[Len(ds)])

RECURSIVE Normal(_, _)
Normal(m, e) ==
    IF e > 0 /\ m % 10 = 0 THEN Normal(m \div 10, e - 1) ELSE [m |-> m, e |-> e]

\* float() of digits, optionally followed by "." and digits
Float(s) ==
    LET dots == {k \in 1 .. Len(s) : s[k] = "."}
    IN  IF dots = {} THEN Normal(IntOf(s), 0)
        ELSE LET d == CHOOSE k \in dots : TRUE
             IN  Normal(IntOf(SubSeq(s, 1, d - 1) \o SubSeq(s, d + 1, Len(s))),
                        Len(s) - d)

extract_numeric_value(match_text) ==
    LET numbers == FirstNumber(match_text)
    IN  IF numbers # None THEN Some(Float(ReplaceComma(numbers[1]))) ELSE None

(***************************************************************************)
(* Transcripts.  A word of the vocabulary is its characters together with  *)
(* what the external matchers find in it: the NER tag of the span the      *)
(* tagger reports for it ("" for none) and the Yargy parsers / regex       *)
(* patterns that match it.  A transcript is a sequence of words joined by  *)
(* single spaces.                                                          *)
(***************************************************************************)
Word(chars, ner, parsers) == [chars |-> chars, ner |-> ner, parsers |-> parsers]

W_Zmey ==
    Word(<<"Z", "m", "e", "y">>,
         "PER", {})
W_Lev ==
    Word(<<"L", "e", "v">>,
         "PER", {"animal_parser"})
W_Moskva ==
    Word(<<"M", "o", "s", "k", "v", "a">>,
         "LOC", {})
W_OON ==
    Word(<<"O", "O", "N">>,
         "ORG", {})
W_piton ==
    Word(<<"p", "i", "t", "o", "n">>,
         "", {"animal_parser"})
W_kg42 ==
    Word(<<"4", "2", " ", "k", "g">>,
         "", {"weight_parser"})
W_kg2c5 ==
    Word(<<"2", ",", "5", " ", "k", "g">>,
         "", {"weight_parser"})
W_metra4 ==
    Word(<<"4", " ", "m", "e", "t", "r", "a">>,
         "", {"length_parser"})
W_sm30 ==
    Word(<<"3", "0", " ", "s", "m">>,
         "", {"length_parser"})
W_gradusov35 ==
    Word(<<"3", "5", " ", "g", "r", "a", "d", "u", "s", "o", "v">>,
         "", {"temp_parser"})
W_gradusa22 ==
    Word(<<"2", "2", " ", "g", "r", "a", "d", "u", "s", "a">>,
         "", {"temp_parser"})
W_tela ==
    Word(<<"t", "e", "l", "a">>,
         "", {})
W_spit ==
    Word(<<"s", "p", "i", "t">>,
         "", {"behavior_parser"})
W_kormit ==
    Word(<<"k", "o", "r", "m", "i", "t">>,
         "", {"behavior_parser", "health_parser"})
W_zdorov ==
    Word(<<"z", "d", "o", "r", "o", "v">>,
         "", {"health_parser"})
W_myaso ==
    Word(<<"m", "y", "a", "s", "o">>,
         "", {"food_parser"})
W_ryba ==
    Word(<<"r", "y", "b", "a">>,
         "", {"food_parser"})
W_let5 ==
    Word(<<"5", " ", "l", "e", "t">>,
         "", {"age_pattern"})
W_goda2 ==
    Word(<<"2", " ", "g", "o", "d", "a">>,
         "", {"age_pattern"})
W_percent50 ==
    Word(<<"5", "0", "%">>,
         "", {"percentage_pattern"})
W_time1430 ==
    Word(<<"1", "4", ":", "3", "0">>,
         "", {"time_pattern"})
W_date010123 ==
    Word(<<"0", "1", ".", "0", "1", ".", "2", "0", "2", "3">>,
         "", {"date_pattern"})
W_vozduha ==
    Word(<<"v", "o", "z", "d", "u", "h", "a">>,
         "", {})
W_prodolzhitelno ==
    Word(<<"p", "r", "o", "d", "o", "l", "z", "h", "i", "t", "e", "l", "n", "o">>,
         "", {})
W_i_ ==
    Word(<<"i">>,
         "", {})

\* every kind of entity, two words of each kind that fills a scalar field
Vocabulary ==
    {W_Zmey, W_Lev, W_Moskva, W_OON, W_piton, W_kg42, W_kg2c5, W_metra4,
     W_sm30, W_gradusov35, W_gradusa22, W_tela, W_spit, W_kormit, W_zdorov,
     W_myaso, W_ryba, W_let5, W_goda2, W_percent50, W_time1430, W_date010123}

\* temperatures, the body marker and words that only take up room
TempWords == {W_tela, W_gradusov35, W_gradusa22, W_vozduha, W_i_}

\* foods, weights and words that only take up room, one of them a date
FeedWords ==
    {W_myaso, W_ryba, W_kg42, W_kg2c5, W_prodolzhitelno, W_i_, W_date010123}

\* the words of the repeated-call runs
IdemWords == {W_kg42, W_kg2c5, W_tela, W_gradusov35, W_myaso}

SeqsUpTo(S, n) == UNION {[1 .. k -> S] : k \in 0 .. n}

Transcripts ==
    SeqsUpTo(Vocabulary, MaxWords) \cup SeqsUpTo(TempWords, MaxTempWords)
        \cup SeqsUpTo(FeedWords, MaxFeedWords)

IdemTranscripts == SeqsUpTo(IdemWords, MaxIdemWords)

RECURSIVE Join(_)
Join(ws) ==
    IF ws = <<>> THEN <<>>
    ELSE IF Len(ws) = 1 THEN ws[1].chars
    ELSE ws[1].chars \o <<" ">> \o Join(Tail(ws))

\* 0-based offset of word k in Join(ws)
RECURSIVE WordStart(_, _)
WordStart(ws, k) ==
    IF k = 1 THEN 0 ELSE WordStart(ws, k - 1) + Len(ws[k - 1].chars) + 1

WordEnd(ws, k) == WordStart(ws, k) + Len(ws[k].chars)

\* the indices 1 .. Len(ws), ascending
Indices(ws) == [k \in 1 .. Len(ws) |-> k]

\* doc.spans after doc.tag_ner: the tagged spans in text order
NerSpans(ws) ==
    LET Tagged(k) == ws[k].ner # ""
        ks == SelectSeq(Indices(ws), Tagged)
    IN  [j \in 1 .. Len(ks) |->
            [type |-> ws[ks[j]].ner, start |-> WordStart(ws, ks[j]),
             stop |-> WordEnd(ws, ks[j]), text |-> ws[ks[j]].chars,
             normal |-> None]]

Parsers ==
    {"weight_parser", "length_parser", "temp_parser", "animal_parser",
     "behavior_parser", "health_parser", "food_parser"}

Patterns == {"date_pattern", "time_pattern", "percentage_pattern", "age_pattern"}

\* parser.findall(text) / re.finditer(pattern, text): the spans in text order
Findall(ws, p) ==
    LET Hit(k) == p \in ws[k].parsers
        ks == SelectSeq(Indices(ws), Hit)
    IN  [j \in 1 .. Len(ks) |-> <<WordStart(ws, ks[j]), WordEnd(ws, ks[j])>>]

(***************************************************************************)
(* The extractors.                                                         *)
(***************************************************************************)
Entity(text_, type, start, end, value, normalized) ==
    [text |-> text_, type |-> type, start |-> start, end |-> end,
     value |-> value, normalized |-> normalized]

extract_with_parser(text_, found, entity_type) ==
    [k \in 1 .. Len(found) |->
        LET start == found[k][1]
            end == found[k][2]
            match_text == PySlice(text_, start, end)
            value == IF entity_type \in {"weight", "length", "temperature"}
                     THEN extract_numeric_value(match_text)
                     ELSE None
        IN  Entity(match_text, entity_type, start, end, value, None)]

extract_custom_entities(text_, found) ==
    extract_with_parser(text_, found["weight_parser"], "weight")
        \o extract_with_parser(text_, found["length_parser"], "length")
        \o extract_with_parser(text_, found["temp_parser"], "temperature")
        \o extract_with_parser(text_, found["animal_parser"], "animal_species")
        \o extract_with_parser(text_, found["behavior_parser"], "behavior")
        \o extract_with_parser(text_, found["health_parser"], "health_status")
        \o extract_with_parser(text_, found["food_parser"], "food")

NerType(t) ==
    CASE t = "PER" -> "person"
      [] t = "LOC" -> "location"
      [] t = "ORG" -> "organization"
      [] OTHER -> t

extract_natasha_entities(doc_spans) ==
    [k \in 1 .. Len(doc_spans) |->
        Entity(doc_spans[k].text, NerType(doc_spans[k].type),
               doc_spans[k].start, doc_spans[k].stop, None,
               doc_spans[k].normal)]

\* one `for match in re.finditer(...)` loop of _extract_regex_entities
RegexEntities(text_, found, entity_type, with_value) ==
    [k \in 1 .. Len(found) |->
        LET group == PySlice(text_, found[k][1], found[k][2])
        IN  Entity(group, entity_type, found[k][1], found[k][2],
                   IF with_value THEN extract_numeric_value(group) ELSE None,
                   None)]

extract_regex_entities(text_, found) ==
    RegexEntities(text_, found["date_pattern"], "date", FALSE)
        \o RegexEntities(text_, found["time_pattern"], "time", FALSE)
        \o RegexEntities(text_, found["percentage_pattern"], "percentage", TRUE)
        \o RegexEntities(text_, found["age_pattern"], "age", TRUE)

\* an insertion that puts e in front of the elements of equal start
Insert_BeforeEqual(s, e) ==
    LET k == Cardinality({j \in 1 .. Len(s) : s[j].start < e.start})
    IN  SubSeq(s, 1, k) \o <<e>> \o SubSeq(s, k + 1, Len(s))

\* list.sort(key=lambda e: e.start): a stable sort.  Insert puts e behind
\* every element of the sorted list s whose start is not greater.
Insert(s, e) ==
    LET k == Cardinality({j \in 1 .. Len(s) : s[j].start <= e.start})
    IN  SubSeq(s, 1, k) \o <<e>> \o SubSeq(s, k + 1, Len(s))

\* the list left as extended, the sort forgotten
SortByStart_Unsorted(s) == s

RECURSIVE SortByStart(_)
SortByStart(s) ==
    IF s = <<>> THEN <<>>
    ELSE Insert(SortByStart(SubSeq(s, 1, Len(s) - 1)), s[Len(s)])

\* the three lists in the order extract_entities extends `entities` by them
Extended(text_, doc_spans, found) ==
    extract_natasha_entities(doc_spans)
        \o extract_custom_entities(text_, found)
        \o extract_regex_entities(text_, found)

extract_entities(text_, doc_spans, found) ==
    SortByStart(Extended(text_, doc_spans, found))

(***************************************************************************)
(* extract_animal_info.                                                    *)
(***************************************************************************)
Window == 10           \* characters of context around a temperature entity
JoinThreshold == 20    \* characters between a food and its weight
BodyMarker == <<"t", "e", "l", "a">>

\* e.dict() without the value
dict_NoValue(e) ==
    [text |-> e.text, type |-> e.type, start |-> e.start, end |-> e.end,
     value |-> None, normalized |-> e.normalized]

\* e.dict()
dict(e) ==
    [text |-> e.text, type |-> e.type, start |-> e.start, end |-> e.end,
     value |-> e.value, normalized |-> e.normalized]

\* a result dictionary whose strings start out empty rather than None
InitialResult_EmptyStrings(ents) ==
    [name |-> Some(<<>>),
     species |-> Some(<<>>),
     measurements |->
        [weight |-> None, length |-> None, temperature |-> None, age |-> None],
     behavior |-> Some(<<>>),
     health_status |-> Some(<<>>),
     feeding |-> [food_type |-> None, quantity |-> None],
     environment |-> [temperature |-> None, humidity |-> None],
     entities |-> [k \in 1 .. Len(ents) |-> dict(ents[k])]]

\* the result dictionary as lines 312-332 build it
InitialResult(ents) ==
    [name |-> None,
     species |-> None,
     measurements |->
        [weight |-> None, length |-> None, temperature |-> None, age |-> None],
     behavior |-> None,
     health_status |-> None,
     feeding |-> [food_type |-> None, quantity |-> None],
     environment |-> [temperature |-> None, humidity |-> None],
     entities |-> [k \in 1 .. Len(ents) |-> dict(ents[k])]]

\* text[entity.start-10:entity.end+10]: without max(0, ...) a negative lower
\* index counts from the end of the text
NearBodyMarker_Unclamped(text_, entity) ==
    Contains(PySlice(text_, entity.start - Window, entity.end + Window),
             BodyMarker)

\* 'tela' in text[max(0, entity.start-10):entity.end+10]
NearBodyMarker(text_, entity) ==
    Contains(PySlice(text_, Max(0, entity.start - Window), entity.end + Window),
             BodyMarker)

\* `if result[...] is None: result[...] = new`: the guard of lines 338, 342,
\* 347, 351, 363, 368, 372 and 377
KeepFirst_Overwrite(current, new) == new

KeepFirst(current, new) == IF current = None THEN new ELSE current

\* a loop that takes a percentage for the humidity
ForEntity_PercentageAsHumidity(res, entity, text_) ==
    IF entity.type = "percentage" THEN
        [res EXCEPT !.environment.humidity = KeepFirst(@, entity.value)]
    ELSE IF entity.type = "person" THEN
        [res EXCEPT !.name = KeepFirst(@, Some(entity.text))]
    ELSE IF entity.type = "animal_species" THEN
        [res EXCEPT !.species = KeepFirst(@, Some(entity.text))]
    ELSE IF entity.type = "weight" THEN
        [res EXCEPT !.measurements.weight = KeepFirst(@, entity.value)]
    ELSE IF entity.type = "length" THEN
        [res EXCEPT !.measurements.length = KeepFirst(@, entity.value)]
    ELSE IF entity.type = "temperature" THEN
        IF NearBodyMarker(text_, entity)
        THEN [res EXCEPT !.measurements.temperature = entity.value]
        ELSE [res EXCEPT !.environment.temperature = entity.value]
    ELSE IF entity.type = "age" THEN
        [res EXCEPT !.measurements.age = KeepFirst(@, entity.value)]
    ELSE IF entity.type = "behavior" THEN
        [res EXCEPT !.behavior = KeepFirst(@, Some(entity.text))]
    ELSE IF entity.type = "health_status" THEN
        [res EXCEPT !.health_status = KeepFirst(@, Some(entity.text))]
    ELSE IF entity.type = "food" THEN
        [res EXCEPT !.feeding.food_type = KeepFirst(@, Some(entity.text))]
    ELSE res

\* one iteration of the loop of lines 335-378
ForEntity(res, entity, text_) ==
    IF entity.type = "person" THEN
        [res EXCEPT !.name = KeepFirst(@, Some(entity.text))]
    ELSE IF entity.type = "animal_species" THEN
        [res EXCEPT !.species = KeepFirst(@, Some(entity.text))]
    ELSE IF entity.type = "weight" THEN
        [res EXCEPT !.measurements.weight = KeepFirst(@, entity.value)]
    ELSE IF entity.type = "length" THEN
        [res EXCEPT !.measurements.length = KeepFirst(@, entity.value)]
    ELSE IF entity.type = "temperature" THEN
        IF NearBodyMarker(text_, entity)
        THEN [res EXCEPT !.measurements.temperature = entity.value]
        ELSE [res EXCEPT !.environment.temperature = entity.value]
    ELSE IF entity.type = "age" THEN
        [res EXCEPT !.measurements.age = KeepFirst(@, entity.value)]
    ELSE IF entity.type = "behavior" THEN
        [res EXCEPT !.behavior = KeepFirst(@, Some(entity.text))]
    ELSE IF entity.type = "health_status" THEN
        [res EXCEPT !.health_status = KeepFirst(@, Some(entity.text))]
    ELSE IF entity.type = "food" THEN
        [res EXCEPT !.feeding.food_type = KeepFirst(@, Some(entity.text))]
    ELSE res

\* the smallest element of a non-empty set of indices
First(S) == CHOOSE k \in S : \A j \in S : k <= j

\* the join without its distance test: the first weight of the list
FeedingJoin_AnyDistance(res, ents) ==
    LET foods == {k \in 1 .. Len(ents) : ents[k].type = "food"}
        weights == {k \in 1 .. Len(ents) : ents[k].type = "weight"}
    IN  IF foods = {} \/ weights = {} THEN res
        ELSE [res EXCEPT !.feeding.quantity = ents[First(weights)].value]

\* a join that passes over the weight the loop has put into measurements
FeedingJoin_SkipConsumed(res, ents) ==
    LET foods == {k \in 1 .. Len(ents) : ents[k].type = "food"}
    IN  IF foods = {} THEN res
        ELSE LET food_entity == ents[First(foods)]
                 near == {k \in 1 .. Len(ents) :
                            /\ ents[k].type = "weight"
                            /\ ents[k].value # res.measurements.weight
                            /\ Abs(ents[k].start - food_entity.start) < JoinThreshold}
             IN  IF near = {} THEN res
                 ELSE [res EXCEPT !.feeding.quantity = ents[First(near)].value]

\* lines 380-387: the food entity is the first of the list, the weight the
\* first of the list less than JoinThreshold characters from it
FeedingJoin(res, ents) ==
    LET foods == {k \in 1 .. Len(ents) : ents[k].type = "food"}
    IN  IF foods = {} THEN res
        ELSE LET food_entity == ents[First(foods)]
                 near == {k \in 1 .. Len(ents) :
                            /\ ents[k].type = "weight"
                            /\ Abs(ents[k].start - food_entity.start) < JoinThreshold}
             IN  IF near = {} THEN res
                 ELSE [res EXCEPT !.feeding.quantity = ents[First(near)].value]

\* how a call ended, if it has
Pending == [pending |-> TRUE]
Returned(v) == [return |-> v]
Raised(e) == [raise |-> e]

(***************************************************************************)
(* The call as a state machine.                                            *)
(***************************************************************************)
Input(ws) ==
    /\ text = Join(ws)
    /\ spans = NerSpans(ws)
    /\ matches = [p \in Parsers \cup Patterns |-> Findall(ws, p)]

InitLocals ==
    /\ pc = "call"
    /\ entities = <<>>
    /\ idx = 0
    /\ result = InitialResult(<<>>)
    /\ earlier = None

\* the API as it starts: no job, no upload, an empty database
NoResponse == [none |-> TRUE]

EmptyDb ==
    [animals |-> <<>>, observations |-> <<>>, measurements |-> <<>>,
     feedings |-> <<>>]

ApiIdle ==
    /\ processing_jobs = <<>>
    /\ upload_dir = <<>>
    /\ background_tasks = {}
    /\ db = EmptyDb
    /\ response = NoResponse

\* lines 391-399 and the like: the functions that hand out the shared objects
Getters == {"get_extractor", "get_recognizer", "get_pipeline"}

\* lines 34-137: the tables of an EntityExtractor as __init__ leaves them
EntityExtractor == [parsers |-> Parsers, patterns |-> Patterns]

\* no save, no worker thread and no getter call is going on
NoConcurrency ==
    /\ sessions = <<>>
    /\ threads = <<>>
    /\ extractor = EntityExtractor
    /\ instance = [g \in Getters |-> None]
    /\ constructed = [g \in Getters |-> 0]
    /\ callers = <<>>

\* nothing but the call of extract_animal_info is going on
NoOtherCall ==
    /\ numeric_arg = <<>>
    /\ numeric_ret = Pending
    /\ db_records = None
    /\ ApiIdle
    /\ NoConcurrency

Init == InitLocals /\ NoOtherCall /\ \E ws \in Transcripts : Input(ws)

\* a result dictionary shared by the calls: only its entities are set anew
ExtractEntities_SharedResult ==
    /\ pc = "call"
    /\ entities' = extract_entities(text, spans, matches)
    /\ result' = [result EXCEPT !.entities = InitialResult(entities').entities]
    /\ idx' = 0
    /\ pc' = "for"
    /\ UNCHANGED <<text, spans, matches, earlier>>
    /\ UNCHANGED beyond_call

\* lines 309-332: extract_entities returns and result is built
ExtractEntities ==
    /\ pc = "call"
    /\ entities' = extract_entities(text, spans, matches)
    /\ result' = InitialResult(entities')
    /\ idx' = 0
    /\ pc' = "for"
    /\ UNCHANGED <<text, spans, matches, earlier>>
    /\ UNCHANGED beyond_call

\* lines 207-211 raise: neither _extract_natasha_entities nor extract_entities
\* nor extract_animal_info catches, so the call ends with the exception
NatashaRaises ==
    /\ pc = "call"
    /\ pc' = "raise"
    /\ UNCHANGED <<text, spans, matches, entities, idx, result, earlier>>
    /\ UNCHANGED beyond_call

\* lines 335-378, one entity
Loop ==
    /\ pc = "for"
    /\ idx < Len(entities)
    /\ result' = ForEntity(result, entities[idx + 1], text)
    /\ idx' = idx + 1
    /\ UNCHANGED <<text, spans, matches, pc, entities, earlier>>
    /\ UNCHANGED beyond_call

\* lines 380-389, after the last entity
JoinAndReturn ==
    /\ pc = "for"
    /\ idx = Len(entities)
    /\ result' = FeedingJoin(result, entities)
    /\ pc' = "return"
    /\ UNCHANGED <<text, spans, matches, entities, idx, earlier>>
    /\ UNCHANGED beyond_call

(***************************************************************************)
(* Calls one after the other on the same extractor instance, as the loop   *)
(* of benchmark_ner makes them.  The locals of a call that has ended are   *)
(* left as they were until the next call sets them; `earlier` keeps one    *)
(* returned draft with the input it was made from, and whether a call on   *)
(* another transcript has been made since.                                 *)
(***************************************************************************)
InitIdem == InitLocals /\ NoOtherCall /\ \E ws \in IdemTranscripts : Input(ws)

SameInput(e) == e.text = text /\ e.spans = spans /\ e.matches = matches

\* the caller keeps the draft the call returned
Remember ==
    /\ pc = "return"
    /\ earlier = None
    /\ earlier' = Some([text |-> text, spans |-> spans, matches |-> matches,
                        draft |-> result, between |-> FALSE])
    /\ UNCHANGED <<text, spans, matches, pc, entities, idx, result>>
    /\ UNCHANGED beyond_call

\* the next call of extract_animal_info, on any transcript
CallAgain ==
    /\ pc \in {"return", "raise"}
    /\ \E ws \in IdemTranscripts :
          /\ text' = Join(ws)
          /\ spans' = NerSpans(ws)
          /\ matches' = [p \in Parsers \cup Patterns |-> Findall(ws, p)]
    /\ pc' = "call"
    /\ earlier' = IF earlier = None \/ text' = earlier[1].text THEN earlier
                  ELSE Some([earlier[1] EXCEPT !.between = TRUE])
    /\ UNCHANGED <<entities, idx, result>>
    /\ UNCHANGED beyond_call

Next == ExtractEntities \/ NatashaRaises \/ Loop \/ JoinAndReturn

Spec == Init /\ [][Next]_vars

NextIdem == Next \/ Remember \/ CallAgain

SpecIdem == InitIdem /\ [][NextIdem]_vars

(***************************************************************************)
(* Properties.  `Consumed` are the entities the loop has gone through: the *)
(* first idx of `entities`, all of them once the call has returned.        *)
(***************************************************************************)
Running == pc \in {"for", "return"}

Consumed == 1 .. idx

OfKind(kind) == {k \in Consumed : entities[k].type = kind}

\* what the earliest consumed entity of a kind carries, None without one
EarliestText(kind) ==
    IF OfKind(kind) = {} THEN None ELSE Some(entities[First(OfKind(kind))].text)

EarliestValue(kind) ==
    IF OfKind(kind) = {} THEN None ELSE entities[First(OfKind(kind))].value

\* C1: at every point of the pass, and so when extract_animal_info returns,
\* each of name, species, measurements.weight/length/age, behavior,
\* health_status and feeding.food_type holds what the FIRST entity of its kind
\* in the sorted sequence carries; a later entity of the kind never replaces it.
C1_FirstEntityWins ==
    Running =>
        /\ result.name = EarliestText("person")
        /\ result.species = EarliestText("animal_species")
        /\ result.measurements.weight = EarliestValue("weight")
        /\ result.measurements.length = EarliestValue("length")
        /\ result.measurements.age = EarliestValue("age")
        /\ result.behavior = EarliestText("behavior")
        /\ result.health_status = EarliestText("health_status")
        /\ result.feeding.food_type = EarliestText("food")

\* two weight entities with different values have been consumed and the call
\* has returned the value of the earlier one
C1_Witness ==
    /\ pc = "return"
    /\ \E a, b \in OfKind("weight") :
          /\ entities[a].start < entities[b].start
          /\ entities[a].value # entities[b].value
          /\ result.measurements.weight = entities[a].value

\* the temperature entities consumed so far that the code routes to the body
\* slot (body = TRUE) or to the environment slot (body = FALSE)
RoutedTo(body) ==
    {k \in OfKind("temperature") : NearBodyMarker(text, entities[k]) = body}

EarliestRouted(body) ==
    IF RoutedTo(body) = {} THEN None ELSE entities[First(RoutedTo(body))].value

\* C2: each temperature slot keeps the value of the first temperature entity
\* routed to it; later entities routed to the same slot do not overwrite it.
C2_FirstTemperatureKept ==
    Running =>
        /\ result.measurements.temperature = EarliestRouted(TRUE)
        /\ result.environment.temperature = EarliestRouted(FALSE)

\* the body marker lies inside the window of the original text that runs from
\* Window characters before the entity's start, but not from before position
\* 0, to Window characters after its end (p is the marker's 0-based offset)
MarkerInWindow(e) ==
    \E p \in 0 .. (Len(text) - Len(BodyMarker)) :
        /\ SubSeq(text, p + 1, p + Len(BodyMarker)) = BodyMarker
        /\ p >= e.start - Window
        /\ p + Len(BodyMarker) <= e.end + Window

\* the loop is about to consume a temperature entity
AtTemperature ==
    pc = "for" /\ idx < Len(entities) /\ entities[idx + 1].type = "temperature"

\* the step that consumes it writes its value to the destination the window
\* decides and leaves the other destination as it was
RoutedStep ==
    AtTemperature =>
        IF MarkerInWindow(entities[idx + 1])
        THEN /\ result'.measurements.temperature = entities[idx + 1].value
             /\ result'.environment = result.environment
        ELSE /\ result'.environment.temperature = entities[idx + 1].value
             /\ result'.measurements = result.measurements

\* with a single temperature entity the other destination stays absent
SingleTemperature ==
    (pc = "return" /\ Cardinality(OfKind("temperature")) = 1) =>
        LET e == entities[First(OfKind("temperature"))]
        IN  IF MarkerInWindow(e)
            THEN /\ result.measurements.temperature = e.value
                 /\ result.environment.temperature = None
            ELSE /\ result.environment.temperature = e.value
                 /\ result.measurements.temperature = None

\* C3: every temperature entity is written to exactly one destination:
\* measurements.temperature if the body marker occurs within the window of the
\* original text from 10 characters before its start (clamped at 0) to 10
\* characters after its end, environment.temperature otherwise; with a single
\* temperature entity the destination not chosen stays absent.
C3_TemperatureRouting == []SingleTemperature /\ [][RoutedStep]_vars

\* a temperature entity that starts less than Window characters into the
\* text, with the marker before it, has gone to the body slot alone
C3_Witness ==
    /\ pc = "return"
    /\ Cardinality(OfKind("temperature")) = 1
    /\ LET e == entities[First(OfKind("temperature"))]
       IN  /\ 0 < e.start /\ e.start < Window
           /\ MarkerInWindow(e)
           /\ result.measurements.temperature = e.value
           /\ result.environment.temperature = None

\* the weight entity at index k lies within the threshold of the food at f
Within(k, f) ==
    /\ entities[k].type = "weight"
    /\ entities[k].start - entities[f].start < JoinThreshold
    /\ entities[f].start - entities[k].start < JoinThreshold

\* C4: on return, feeding.quantity is absent if there is no food entity or no
\* weight entity within the threshold of the FIRST food entity's start, and
\* else the value of the first weight entity in sequence order that is within
\* it; weight entities farther away are passed over.
C4_FeedingJoin ==
    pc = "return" =>
        IF OfKind("food") = {} THEN result.feeding.quantity = None
        ELSE LET f == First(OfKind("food"))
             IN  /\ (\A k \in Consumed : ~Within(k, f))
                        => result.feeding.quantity = None
                 /\ \A k \in Consumed :
                        (Within(k, f) /\ \A j \in 1 .. (k - 1) : ~Within(j, f))
                            => result.feeding.quantity = entities[k].value

\* a weight too far from the food comes first in the sequence, a nearer one
\* with another value later, and the quantity is the nearer one's
C4_Witness ==
    /\ pc = "return"
    /\ OfKind("food") # {}
    /\ \E a, b \in OfKind("weight") :
          /\ a < b
          /\ ~Within(a, First(OfKind("food")))
          /\ Within(b, First(OfKind("food")))
          /\ entities[a].value # entities[b].value
          /\ result.feeding.quantity = entities[b].value

\* C5: the sequence extract_entities returns is ascending by start.
C5_SortedByStart ==
    Running =>
        \A k \in 1 .. (Len(entities) - 1) :
            entities[k].start <= entities[k + 1].start

\* the extractors' lists, as extended, were not in order of start
C5_Witness ==
    /\ Running
    /\ LET ext == Extended(text, spans, matches)
       IN  \E k \in 1 .. (Len(ext) - 1) : ext[k].start > ext[k + 1].start

\* where an entity stands in the extractors' run order: annotator entities
\* first, then lexicon entities, then regex entities, each list as emitted
RunOrder(e) ==
    LET ext == Extended(text, spans, matches)
    IN  First({k \in 1 .. Len(ext) : ext[k] = e})

\* C6: among entities of equal start the returned sequence keeps the run order
\* of the extractors and, within one extractor, the order of emission.
C6_StableMerge ==
    Running =>
        \A a, b \in 1 .. Len(entities) :
            (a < b /\ entities[a].start = entities[b].start)
                => RunOrder(entities[a]) < RunOrder(entities[b])

\* one tie between the annotator and the lexicon extractor and one between
\* two entities of the lexicon extractor
C6_Witness ==
    /\ Running
    /\ \E a, b \in 1 .. Len(entities) :
          /\ a < b /\ entities[a].start = entities[b].start
          /\ entities[a].type = "person" /\ entities[b].type = "animal_species"
    /\ \E a, b \in 1 .. Len(entities) :
          /\ a < b /\ entities[a].start = entities[b].start
          /\ entities[a].type = "behavior" /\ entities[b].type = "health_status"

\* how often e occurs in the sequence s
Count(s, e) == Cardinality({k \in 1 .. Len(s) : s[k] = e})

\* C7: the draft's entities are the extractors' entities, each exactly once,
\* with text, type, start, end and value unchanged and in the order of
\* extract_entities, whether or not an entity filled a scalar field.
C7_EntitiesRetained ==
    Running =>
        LET ext == Extended(text, spans, matches)
        IN  /\ Len(result.entities) = Len(ext)
            /\ \A k \in 1 .. Len(ext) :
                  Count(result.entities, ext[k]) = Count(ext, ext[k])
            /\ \A a, b \in 1 .. Len(result.entities) :
                  a < b =>
                    \/ result.entities[a].start < result.entities[b].start
                    \/ /\ result.entities[a].start = result.entities[b].start
                       /\ RunOrder(result.entities[a]) < RunOrder(result.entities[b])

\* the returned draft lists an entity that lost its field to an earlier one of
\* its kind and an entity of a kind that fills no field
C7_Witness ==
    /\ pc = "return"
    /\ \E a, b \in 1 .. Len(result.entities) :
          /\ a < b
          /\ result.entities[a].type = "weight"
          /\ result.entities[b].type = "weight"
          /\ result.entities[b].value # result.measurements.weight
    /\ \E c \in 1 .. Len(result.entities) :
          result.entities[c].type \in {"location", "date", "time", "percentage"}

\* C8: a call on the text and the extractor outputs of an earlier call returns
\* the draft the earlier call returned, whatever calls came in between.
C8_Idempotent ==
    (pc = "return" /\ earlier # None /\ SameInput(earlier[1]))
        => result = earlier[1].draft

\* a transcript with entities has been processed again, after a call on
\* another transcript, and the draft is the one kept from before
C8_Witness ==
    /\ pc = "return"
    /\ earlier # None
    /\ SameInput(earlier[1])
    /\ earlier[1].between
    /\ entities # <<>>
    /\ result = earlier[1].draft

Optional(v) == v = None \/ (Len(v) = 1)

\* every field of the draft is there
HasEveryField(res) ==
    /\ DOMAIN res = {"name", "species", "measurements", "behavior",
                     "health_status", "feeding", "environment", "entities"}
    /\ DOMAIN res.measurements = {"weight", "length", "temperature", "age"}
    /\ DOMAIN res.feeding = {"food_type", "quantity"}
    /\ DOMAIN res.environment = {"temperature", "humidity"}
    /\ Optional(res.name) /\ Optional(res.species)
    /\ Optional(res.behavior) /\ Optional(res.health_status)
    /\ \A f \in DOMAIN res.measurements : Optional(res.measurements[f])
    /\ \A f \in DOMAIN res.feeding : Optional(res.feeding[f])
    /\ \A f \in DOMAIN res.environment : Optional(res.environment[f])
    /\ res.entities \in Seq({e \in {res.entities[k] : k \in DOMAIN res.entities} :
            DOMAIN e = {"text", "type", "start", "end", "value", "normalized"}})

AllAbsent(res) ==
    /\ res.name = None /\ res.species = None
    /\ res.behavior = None /\ res.health_status = None
    /\ \A f \in DOMAIN res.measurements : res.measurements[f] = None
    /\ \A f \in DOMAIN res.feeding : res.feeding[f] = None
    /\ \A f \in DOMAIN res.environment : res.environment[f] = None
    /\ res.entities = <<>>

\* C9: once the extractors have returned their entities, whatever the
\* transcript and the entities, the pass can always go on to its return and
\* the draft returned has every field; with no entities every field is absent
\* and entities is empty.
C9_SynthesisTotal ==
    /\ pc = "for" => ENABLED (Loop \/ JoinAndReturn)
    /\ pc = "return" => HasEveryField(result)
    /\ (pc = "return" /\ Extended(text, spans, matches) = <<>>)
          => AllAbsent(result)

\* the empty transcript has been processed to an all-absent draft
C9_Witness == pc = "return" /\ text = <<>> /\ AllAbsent(result)

\* C10: a failure of the statistical annotator does not end the call with the
\* exception: extract_animal_info still returns a draft.
C10_AnnotatorFailureTolerated == pc # "raise"

(***************************************************************************)
(* A broken extractor.  extract_animal_info takes the bounds of an entity  *)
(* as the matcher reports them (span.start / span.stop at lines 228-229,   *)
(* match.span at line 152).  Here the matchers report bounds outside       *)
(* 0 <= start <= end <= len(text): an end past the text, a start behind    *)
(* the end, a negative start.                                              *)
(***************************************************************************)
MaxBrokenWords == 1    \* words of a transcript handed to a broken extractor

Faults == {"end_past_text", "start_after_end", "negative_start"}

\* the bounds (a, b) of a word as a broken matcher reports them
BrokenBounds(a, b, n, fault) ==
    CASE fault = "end_past_text" -> <<a, b + n + 1>>
      [] fault = "start_after_end" -> <<b, a>>
      [] fault = "negative_start" -> <<a - n - 1, b>>

BrokenSpans(ws, fault) ==
    [k \in 1 .. Len(NerSpans(ws)) |->
        LET s == NerSpans(ws)[k]
            b == BrokenBounds(s.start, s.stop, Len(Join(ws)), fault)
        IN  [s EXCEPT !.start = b[1], !.stop = b[2]]]

BrokenFindall(ws, p, fault) ==
    [k \in 1 .. Len(Findall(ws, p)) |->
        BrokenBounds(Findall(ws, p)[k][1], Findall(ws, p)[k][2],
                     Len(Join(ws)), fault)]

BrokenTranscripts == SeqsUpTo(Vocabulary, MaxBrokenWords) \ {<<>>}

InitBroken ==
    /\ InitLocals
    /\ NoOtherCall
    /\ \E ws \in BrokenTranscripts, fault \in Faults :
          /\ text = Join(ws)
          /\ spans = BrokenSpans(ws, fault)
          /\ matches = [p \in Parsers \cup Patterns |-> BrokenFindall(ws, p, fault)]

SpecBroken == InitBroken /\ [][Next]_vars

\* the invariant of an entity's span: 0 <= start <= end <= len(text)
ValidBounds(e) == 0 <= e.start /\ e.start <= e.end /\ e.end <= Len(text)

\* C11: synthesis fails fast on an entity whose bounds violate
\* 0 <= start <= end <= len(text): no draft is returned that was built from
\* such an entity.
C11_InvalidBoundsFailFast ==
    pc = "return" => \A k \in 1 .. Len(entities) : ValidBounds(entities[k])

(***************************************************************************)
(* _extract_numeric_value on its own: a call on any short string over the  *)
(* characters below and on every word of the vocabulary.  float() raises   *)
(* ValueError unless its argument is a decimal literal: digits with at     *)
(* most one "." among them and at least one digit.                         *)
(***************************************************************************)
MaxNumLen == 4    \* characters of a string handed to _extract_numeric_value

NumChars == {"0", "2", "4", "5", ",", ".", "k"}

NumericTexts ==
    SeqsUpTo(NumChars, MaxNumLen) \cup {w.chars : w \in Vocabulary}

\* float(s) returns rather than raises
FloatAccepts(s) ==
    /\ \A k \in 1 .. Len(s) : s[k] \in Digits \cup {"."}
    /\ Cardinality({k \in 1 .. Len(s) : s[k] = "."}) <= 1
    /\ \E k \in 1 .. Len(s) : s[k] \in Digits

InitNumeric ==
    /\ InitLocals
    /\ Input(<<>>)
    /\ numeric_arg \in NumericTexts
    /\ numeric_ret = Pending
    /\ db_records = None
    /\ ApiIdle
    /\ NoConcurrency

\* lines 139-146, the call from its first line to its return or exception
ExtractNumericValue ==
    /\ numeric_ret = Pending
    /\ LET numbers == FirstNumber(numeric_arg)
       IN  numeric_ret' =
              IF numbers # None /\ ~FloatAccepts(ReplaceComma(numbers[1]))
              THEN Raised("ValueError")
              ELSE Returned(extract_numeric_value(numeric_arg))
    /\ UNCHANGED <<text, spans, matches, pc, entities, idx, result, earlier>>
    /\ UNCHANGED <<numeric_arg, db_records, api_vars, concurrent_vars>>

NextNumeric == ExtractNumericValue

SpecNumeric == InitNumeric /\ [][NextNumeric]_vars

\* the decimal with integer digits int and fractional digits frac
Decimal(int, frac) == Normal(IntOf(int \o frac), Len(frac))

\* s has a maximal run of digits from position p to position q - 1
DigitRun(s, p, q) ==
    /\ p < q
    /\ \A k \in p .. (q - 1) : s[k] \in Digits
    /\ q > Len(s) \/ s[q] \notin Digits

\* the first numeric literal of s: the digits from the first digit of s on
\* and, if a "." or "," follows them, the digits behind it
FirstLiteralValue(s) ==
    LET p == First({k \in 1 .. Len(s) : s[k] \in Digits})
        q == CHOOSE k \in (p + 1) .. (Len(s) + 1) : DigitRun(s, p, k)
        sep == q <= Len(s) /\ s[q] \in {".", ","}
        r == IF sep /\ q < Len(s) /\ s[q + 1] \in Digits
             THEN CHOOSE k \in (q + 2) .. (Len(s) + 1) : DigitRun(s, q + 1, k)
             ELSE q + 1
    IN  IF sep THEN Decimal(SubSeq(s, p, q - 1), SubSeq(s, q + 1, r - 1))
        ELSE Decimal(SubSeq(s, p, q - 1), <<>>)

\* C12: _extract_numeric_value never raises; for a text without a digit it
\* returns None, and else the first numeric literal of the text as a float,
\* with "." or "," as the decimal separator: "42 kg" gives 42.0, "2,5 kg" gives
\* 2.5 and a literal that ends in a separator, "5,", gives 5.0.
C12_FirstNumberAsFloat ==
    numeric_ret # Pending =>
        /\ "return" \in DOMAIN numeric_ret
        /\ IF \A k \in 1 .. Len(numeric_arg) : numeric_arg[k] \notin Digits
           THEN numeric_ret.return = None
           ELSE numeric_ret.return = Some(FirstLiteralValue(numeric_arg))
        /\ numeric_arg = W_kg42.chars => numeric_ret.return = Some([m |-> 42, e |-> 0])
        /\ numeric_arg = W_kg2c5.chars => numeric_ret.return = Some([m |-> 25, e |-> 1])
        /\ numeric_arg = <<"5", ",">> => numeric_ret.return = Some([m |-> 5, e |-> 0])

\* a text with two literals, the first one ending in a separator, has been
\* turned into the first literal's value
C12_Witness ==
    /\ numeric_arg = <<"2", ",", "k", "5">>
    /\ numeric_ret = Returned(Some([m |-> 2, e |-> 0]))

(***************************************************************************)
(* ProcessingPipeline.process_audio and _prepare_db_records                *)
(* (core_engine/processing_pipeline.py).  The transcription the recognizer *)
(* returns is the text extract_animal_info is called on; once that call    *)
(* has returned, _prepare_db_records maps the draft to database payloads.  *)
(***************************************************************************)
MaxMapWords == 3    \* words of a transcript that goes through the mapper

W_nablyudenie_za ==
    Word(<<"n", "a", "b", "l", "y", "u", "d", "e", "n", "i", "e", " ", "z", "a">>,
         "", {})
W_Nablyudenie_za ==
    Word(<<"N", "a", "b", "l", "y", "u", "d", "e", "n", "i", "e", " ", "z", "a">>,
         "", {})
W_bagiroy ==
    Word(<<"b", "a", "g", "i", "r", "o", "y">>,
         "", {})
W_bagiroy_comma ==
    Word(<<"b", "a", "g", "i", "r", "o", "y", ",">>,
         "", {})
W_bagiroy_dot ==
    Word(<<"b", "a", "g", "i", "r", "o", "y", ".">>,
         "", {})
W_kg0 ==
    Word(<<"0", " ", "k", "g">>,
         "", {"weight_parser"})

\* the marker in both cases, an animal the lexicon does not know with and
\* without punctuation, a name, a species, weights (one of them 0), a food,
\* an age
MapWords ==
    {W_nablyudenie_za, W_Nablyudenie_za, W_bagiroy, W_bagiroy_comma,
     W_bagiroy_dot, W_Zmey, W_piton, W_kg0, W_kg42, W_myaso, W_let5}

MapTranscripts == SeqsUpTo(MapWords, MaxMapWords)

\* str.lower(), on the capitals of the vocabulary
Lower(s) ==
    [k \in 1 .. Len(s) |->
        CASE s[k] = "N" -> "n" [] s[k] = "Z" -> "z" [] s[k] = "L" -> "l"
          [] s[k] = "M" -> "m" [] s[k] = "O" -> "o" [] OTHER -> s[k]]

\* s.find(w, start): the lowest 0-based index from start on at which w
\* occurs in s, -1 if there is none
Find(s, w, start) ==
    LET at == {k \in start .. (Len(s) - Len(w)) : SubSeq(s, k + 1, k + Len(w)) = w}
    IN  IF at = {} THEN 0 - 1 ELSE First(at)

\* s.strip()
Strip(s) ==
    LET inked == {k \in 1 .. Len(s) : s[k] # " "}
    IN  IF inked = {} THEN <<>>
        ELSE SubSeq(s, First(inked), CHOOSE k \in inked : \A j \in inked : j <= k)

\* truth value of an optional string / an optional float: None, "" and 0.0
\* are false
TruthyText(v) == v # None /\ v[1] # <<>>
TruthyNumber(v) == v # None /\ v[1].m # 0

ObservationPattern ==
    <<"n", "a", "b", "l", "y", "u", "d", "e", "n", "i", "e", " ", "z", "a">>

Unknown == <<"U", "n", "k", "n", "o", "w", "n">>

\* a guard that asks for both to be missing
NeedsFallback_Both(animal_name, animal_species) ==
    ~TruthyText(animal_name) /\ ~TruthyText(animal_species)

\* line 89
NeedsFallback(animal_name, animal_species) ==
    ~TruthyText(animal_name) \/ ~TruthyText(animal_species)

\* lines 94-101: animal_text
AnimalText(transcription) ==
    LET start_idx == Find(Lower(transcription), ObservationPattern, 0)
                        + Len(ObservationPattern)
        dot == Find(transcription, <<".">>, start_idx)
        comma == Find(transcription, <<",">>, start_idx)
        end_idx == IF dot # 0 - 1 THEN dot
                   ELSE IF comma # 0 - 1 THEN comma
                   ELSE Len(transcription)
    IN  Strip(PySlice(transcription, start_idx, end_idx))

\* lines 86-104: animal_species when the animal record is built
AnimalSpecies(structured_data, transcription) ==
    IF /\ NeedsFallback(structured_data.name, structured_data.species)
       /\ Contains(Lower(transcription), ObservationPattern)
       /\ AnimalText(transcription) # <<>>
       /\ ~TruthyText(structured_data.species)
    THEN Some(AnimalText(transcription))
    ELSE structured_data.species

\* x or "Unknown"
OrUnknown(v) == IF TruthyText(v) THEN v[1] ELSE Unknown

\* line 126: any(measurements.values())
AnyMeasurement(measurements) ==
    \E f \in DOMAIN measurements : TruthyNumber(measurements[f])

\* a test of the quantity alone
HasFeeding_QuantityOnly(feeding) == TruthyNumber(feeding.quantity)

\* line 137
HasFeeding(feeding) ==
    TruthyText(feeding.food_type) \/ TruthyNumber(feeding.quantity)

\* os.path.basename of a path kept as directory and file name
basename(path) == path.name

prepare_db_records(structured_data, audio_path, transcription) ==
    [animal |->
        [name |-> OrUnknown(structured_data.name),
         species |-> OrUnknown(AnimalSpecies(structured_data, transcription))],
     observation |->
        [behavior |-> structured_data.behavior,
         health_status |-> structured_data.health_status,
         notes |-> transcription,
         audio_file |-> basename(audio_path),
         transcription |-> transcription,
         temperature |-> structured_data.environment.temperature,
         humidity |-> structured_data.environment.humidity],
     measurement |->
        IF AnyMeasurement(structured_data.measurements)
        THEN Some([weight |-> structured_data.measurements.weight,
                   length |-> structured_data.measurements.length,
                   height |-> None,
                   temperature |-> structured_data.measurements.temperature])
        ELSE None,
     feeding |->
        IF HasFeeding(structured_data.feeding)
        THEN Some([food_type |-> structured_data.feeding.food_type,
                   quantity |-> structured_data.feeding.quantity,
                   notes |-> None])
        ELSE None]

\* the audio file process_audio is called on
AudioPath == [dir |-> "uploads", name |-> "observation.wav"]

InitPipeline ==
    /\ InitLocals
    /\ NoOtherCall
    /\ \E ws \in MapTranscripts : Input(ws)

\* a mapper that stores the species it found in the draft
PrepareDbRecords_WritesDraft ==
    /\ pc = "return"
    /\ db_records' = Some(prepare_db_records(result, AudioPath, text))
    /\ result' = [result EXCEPT
                     !.species = AnimalSpecies(result, text)]
    /\ pc' = "processed"
    /\ UNCHANGED <<text, spans, matches, entities, idx, earlier>>
    /\ UNCHANGED <<numeric_arg, numeric_ret, api_vars, concurrent_vars>>

\* lines 67-80 of process_audio: _prepare_db_records is called on the draft
\* extract_animal_info returned, and the result is put together
PrepareDbRecords ==
    /\ pc = "return"
    /\ db_records' = Some(prepare_db_records(result, AudioPath, text))
    /\ pc' = "processed"
    /\ UNCHANGED <<text, spans, matches, entities, idx, result, earlier>>
    /\ UNCHANGED <<numeric_arg, numeric_ret, api_vars, concurrent_vars>>

NextPipeline == Next \/ PrepareDbRecords

SpecPipeline == InitPipeline /\ [][NextPipeline]_vars

\* process_audio has returned: `result` is the draft, db_records[1] the payloads
Processed == pc = "processed"

\* C13: neither component of the Animal identity is null: name is the draft's
\* name if set, else "Unknown"; species is the draft's species if set, else
\* the species of the fallback heuristic if it found one, else "Unknown".
C13_AnimalIdentity ==
    Processed =>
        LET animal == db_records[1].animal
            found == /\ Contains(Lower(text), ObservationPattern)
                     /\ AnimalText(text) # <<>>
        IN  /\ animal.name # <<>> /\ animal.species # <<>>
            /\ animal.name = IF result.name # None THEN result.name[1] ELSE Unknown
            /\ animal.species =
                  IF result.species # None THEN result.species[1]
                  ELSE IF found THEN AnimalText(text)
                  ELSE Unknown

\* a draft with a name and no species has got its species from the fallback
\* heuristic
C13_Witness ==
    /\ Processed
    /\ result.name # None
    /\ result.species = None
    /\ db_records[1].animal.name = result.name[1]
    /\ db_records[1].animal.species = W_bagiroy.chars

\* C14: there is a Measurement payload if and only if at least one of the
\* draft's measurements weight, length, temperature, age is not None, a
\* recorded 0 included.
C14_MeasurementPresence ==
    Processed =>
        (db_records[1].measurement # None
            <=> \E f \in {"weight", "length", "temperature", "age"} :
                    result.measurements[f] # None)

\* C15: there is a Feeding payload if and only if the draft's
\* feeding.food_type or feeding.quantity is not None, a quantity of 0
\* included; with both None the payload is None.
C15_FeedingPresence ==
    Processed =>
        /\ db_records[1].feeding # None
              <=> (result.feeding.food_type # None \/ result.feeding.quantity # None)
        /\ db_records[1].feeding # None =>
              /\ db_records[1].feeding[1].food_type = result.feeding.food_type
              /\ db_records[1].feeding[1].quantity = result.feeding.quantity

\* a draft with a food and the quantity 0 has got its Feeding payload
C15_Witness ==
    /\ Processed
    /\ result.feeding.food_type # None
    /\ result.feeding.quantity = Some([m |-> 0, e |-> 0])
    /\ db_records[1].feeding # None
    /\ db_records[1].feeding[1].quantity = Some([m |-> 0, e |-> 0])

\* the 0-based offset behind the first occurrence of the marker in the
\* lower-cased transcript
AfterMarker ==
    First({k \in 0 .. (Len(text) - Len(ObservationPattern)) :
              SubSeq(Lower(text), k + 1, k + Len(ObservationPattern))
                  = ObservationPattern})
        + Len(ObservationPattern)

\* the text from there up to the first "." or ",", whichever occurs first,
\* or up to the end of the text if there is neither, without the blanks
\* around it
UpToFirstTerminator ==
    LET stops == {k \in AfterMarker .. (Len(text) - 1) : text[k + 1] \in {".", ","}}
    IN  Strip(SubSeq(text, AfterMarker + 1,
                     IF stops = {} THEN Len(text) ELSE First(stops)))

\* C16: with the draft's species unset and the marker in the transcript, the
\* Animal species is the text behind the marker up to the next "." or ",",
\* whichever occurs first, or up to the end of the text ("Unknown" if that
\* text is empty); a species the draft has is left as it is, and the fallback
\* never sets the name.
C16_MapperFallback ==
    Processed =>
        LET animal == db_records[1].animal
        IN  /\ (result.species = None /\ Contains(Lower(text), ObservationPattern))
                  => animal.species = IF UpToFirstTerminator = <<>> THEN Unknown
                                      ELSE UpToFirstTerminator
            /\ result.species # None => animal.species = result.species[1]
            /\ animal.name = IF result.name # None THEN result.name[1] ELSE Unknown

\* C17: nothing changes the draft once extract_animal_info has returned it:
\* _prepare_db_records and the rest of process_audio leave every field as it
\* was, the species too when the fallback heuristic supplied one for the
\* Animal record.
C17_DraftNotMutated == [][pc = "return" => result' = result]_vars

\* the fallback heuristic has supplied the species of the Animal record and
\* the draft still has none
C17_Witness ==
    /\ Processed
    /\ result.species = None
    /\ db_records[1].animal.species # Unknown
    /\ result.entities # <<>>

(***************************************************************************)
(* The API (backend/api/main.py): POST /api/audio/process, the background  *)
(* task process_audio_task and GET /api/audio/status/{job_id}.  The        *)
(* handlers and the task are coroutines without an await in them, so each  *)
(* runs from its first line to its last without another one in between;    *)
(* the task of a job runs at some time after the response to its upload.   *)
(* An uploaded file is what the recognizer makes of it: whether it is PCM  *)
(* audio, and the words spoken in it.  Times (start_time, processing_time) *)
(* are left out, except that processing_time is there or not.              *)
(***************************************************************************)
MaxJobs == 2    \* uploads the API receives

FileNames == {"a.wav", "b.wav"}

UploadDir == "uploads"

Pcm(ws) == [pcm |-> TRUE, says |-> ws]
NotPcm == [pcm |-> FALSE, says |-> <<>>]

\* a full observation, a food without a weight, silence, and a file that is
\* no PCM audio
Uploads ==
    {Pcm(<<W_Zmey, W_piton, W_myaso, W_kg42>>), Pcm(<<W_myaso>>), Pcm(<<>>),
     NotPcm}

\* str(uuid.uuid4()): an id no job has
uuid4_Same(jobs) == 1

uuid4(jobs) == Cardinality(DOMAIN jobs) + 1

JobIds == 1 .. MaxJobs

\* the messages of the exceptions
ErrNotPcm == "Audio file must be WAV format PCM"
ErrAnnotator == "annotator failure"
ErrNotNull == "NOT NULL constraint failed"

\* the forward pass of extract_animal_info from entity k on
RECURSIVE Pass(_, _, _, _)
Pass(res, ents, k, text_) ==
    IF k > Len(ents) THEN res
    ELSE Pass(ForEntity(res, ents[k], text_), ents, k + 1, text_)

\* the element of a set of one element
Only(S) == CHOOSE x \in S : TRUE

\* extract_animal_info as a function of the text and what the matchers find;
\* `ents` is the list extract_entities returns, computed once
extract_animal_info(text_, doc_spans, found) ==
    Only({FeedingJoin(Pass(InitialResult(ents), ents, 1, text_), ents) :
            ents \in {extract_entities(text_, doc_spans, found)}})

\* ProcessingPipeline.process_audio on a PCM file in which ws is spoken
process_audio(audio_path, ws) ==
    Only({[audio_file |-> audio_path,
           transcription |-> transcription,
           entities |-> structured_data.entities,
           structured_data |-> structured_data,
           db_records |-> prepare_db_records(structured_data, audio_path,
                                             transcription)] :
            transcription \in {Join(ws)},
            structured_data \in
                {extract_animal_info(Join(ws), NerSpans(ws),
                    [p \in Parsers \cup Patterns |-> Findall(ws, p)])}})

\* what process_audio returns for each file that can be in UPLOAD_DIR
PipelineResults ==
    [name \in FileNames, file \in {f \in Uploads : f.pcm} |->
        process_audio([dir |-> UploadDir, name |-> name], file.says)]

\* lines 159-171: the id of the animal row, an existing one or a new one
AnimalId(rows, animal) ==
    LET same == {k \in 1 .. Len(rows.animals) : rows.animals[k] = animal}
    IN  IF same = {} THEN Len(rows.animals) + 1 ELSE First(same)

\* save_to_database: the rows after the call and how the call ended.  The
\* feedings table has food_type and quantity NOT NULL: the commit of a row
\* without one of them raises, and the rollback leaves the rows as they were.
save_to_database(rows, records) ==
    LET animal_id == AnimalId(rows, records.animal)
        observation_id == Len(rows.observations) + 1
        committed ==
            [animals |->
                IF animal_id > Len(rows.animals)
                THEN Append(rows.animals, records.animal) ELSE rows.animals,
             observations |->
                Append(rows.observations,
                       [animal_id |-> animal_id,
                        audio_file |-> records.observation.audio_file,
                        transcription |-> records.observation.transcription]),
             measurements |->
                IF records.measurement # None
                THEN Append(rows.measurements,
                            [animal_id |-> animal_id,
                             weight |-> records.measurement[1].weight])
                ELSE rows.measurements,
             feedings |->
                IF records.feeding # None
                THEN Append(rows.feedings,
                            [animal_id |-> animal_id,
                             food_type |-> records.feeding[1].food_type,
                             quantity |-> records.feeding[1].quantity])
                ELSE rows.feedings]
    IN  IF /\ records.feeding # None
           /\ (records.feeding[1].food_type = None \/ records.feeding[1].quantity = None)
        THEN [rows |-> rows, ret |-> Raised(ErrNotNull)]
        ELSE [rows |-> committed,
              ret |-> Returned([animal_id |-> animal_id,
                                observation_id |-> observation_id])]

\* the file a task reads, as it is in UPLOAD_DIR when the task runs
FileOf(task) == upload_dir[task.file_path.name]

\* the exceptions the try block of the task can end with
Exceptions(task) ==
    IF ~FileOf(task).pcm THEN {ErrNotPcm}
    ELSE LET saved == save_to_database(db,
                          PipelineResults[task.file_path.name, FileOf(task)].db_records)
         IN  {ErrAnnotator}
                \cup (IF "raise" \in DOMAIN saved.ret THEN {saved.ret.raise} ELSE {})

\* AudioProcessResponse: the fields of lines 50-57
AudioProcessResponse(id, status, file_name, transcription, time, ents, data) ==
    [id |-> id, status |-> status, file_name |-> file_name,
     transcription |-> transcription, processing_time |-> time,
     entities |-> ents, structured_data |-> data]

\* dict.get(key)
Get(d, key) == IF key \in DOMAIN d THEN Some(d[key]) ELSE None

InitApi ==
    /\ InitLocals
    /\ Input(<<>>)
    /\ numeric_arg = <<>>
    /\ numeric_ret = Pending
    /\ db_records = None
    /\ ApiIdle
    /\ NoConcurrency

\* lines 83-114: POST /api/audio/process
PostAudioProcess ==
    /\ Cardinality(DOMAIN processing_jobs) < MaxJobs
    /\ \E filename \in FileNames, file \in Uploads :
          LET job_id == uuid4(processing_jobs)
              file_path == [dir |-> UploadDir, name |-> filename]
          IN  /\ upload_dir' = (filename :> file) @@ upload_dir
              /\ processing_jobs' =
                    (job_id :> [id |-> job_id, status |-> "processing",
                                file_name |-> filename, file_path |-> file_path])
                        @@ processing_jobs
              /\ background_tasks' =
                    background_tasks \cup {[job_id |-> job_id, file_path |-> file_path]}
              /\ response' =
                    [status_code |-> 200,
                     body |-> AudioProcessResponse(job_id, "processing", filename,
                                                   None, None, None, None)]
    /\ UNCHANGED <<call_vars, concurrent_vars, numeric_arg, numeric_ret, db_records, db>>

\* a task that marks the job completed before the save has committed
TaskCompleted_BeforeSave(job_id) ==
    /\ \E task \in background_tasks :
          /\ task.job_id = job_id
          /\ FileOf(task).pcm
          /\ LET processed == PipelineResults[task.file_path.name, FileOf(task)]
             IN  processing_jobs' =
                    [processing_jobs EXCEPT ![job_id] =
                        [status |-> "completed",
                         transcription |-> processed.transcription,
                         processing_time |-> "total_time",
                         entities |-> processed.entities,
                         structured_data |-> processed.structured_data,
                         db_records |-> [animal_id |-> AnimalId(db, processed.db_records.animal),
                                         observation_id |-> Len(db.observations) + 1]]
                            @@ @]
          /\ background_tasks' = background_tasks \ {task}
    /\ UNCHANGED <<call_vars, concurrent_vars, numeric_arg, numeric_ret, db_records>>
    /\ UNCHANGED <<upload_dir, db, response>>

\* lines 116-136: the task of job_id runs and its try block ends without an
\* exception
TaskCompleted(job_id) ==
    /\ \E task \in background_tasks :
          /\ task.job_id = job_id
          /\ FileOf(task).pcm
          /\ LET processed == PipelineResults[task.file_path.name, FileOf(task)]
                 saved == save_to_database(db, processed.db_records)
             IN  /\ "return" \in DOMAIN saved.ret
                 /\ db' = saved.rows
                 /\ processing_jobs' =
                       [processing_jobs EXCEPT ![job_id] =
                           [status |-> "completed",
                            transcription |-> processed.transcription,
                            processing_time |-> "total_time",
                            entities |-> processed.entities,
                            structured_data |-> processed.structured_data,
                            db_records |-> saved.ret.return] @@ @]
          /\ background_tasks' = background_tasks \ {task}
    /\ UNCHANGED <<call_vars, concurrent_vars, numeric_arg, numeric_ret, db_records>>
    /\ UNCHANGED <<upload_dir, response>>

\* an exception that nothing catches: the task ends and the entry stays
TaskFailed_Uncaught(job_id) ==
    /\ \E task \in background_tasks :
          /\ task.job_id = job_id
          /\ Exceptions(task) # {}
          /\ background_tasks' = background_tasks \ {task}
    /\ UNCHANGED <<call_vars, concurrent_vars, numeric_arg, numeric_ret, db_records>>
    /\ UNCHANGED <<processing_jobs, upload_dir, db, response>>

\* lines 116-143: the task of job_id runs and its try block ends with an
\* exception, which the handler of lines 138-143 records
TaskFailed(job_id) ==
    /\ \E task \in background_tasks :
          /\ task.job_id = job_id
          /\ \E e \in Exceptions(task) :
                processing_jobs' =
                    [processing_jobs EXCEPT ![job_id] =
                        [status |-> "failed", error |-> e] @@ @]
          /\ background_tasks' = background_tasks \ {task}
    /\ UNCHANGED <<call_vars, concurrent_vars, numeric_arg, numeric_ret, db_records>>
    /\ UNCHANGED <<upload_dir, db, response>>

ProcessAudioTask(job_id) == TaskCompleted(job_id) \/ TaskFailed(job_id)

\* lines 145-160: GET /api/audio/status/{job_id}
GetAudioStatus(job_id) ==
    /\ response' =
          IF job_id \notin DOMAIN processing_jobs THEN [status_code |-> 404]
          ELSE LET job == processing_jobs[job_id]
               IN  [status_code |-> 200,
                    body |-> AudioProcessResponse(job.id, job.status, job.file_name,
                                Get(job, "transcription"),
                                Get(job, "processing_time"),
                                Get(job, "entities"),
                                Get(job, "structured_data"))]
    /\ UNCHANGED <<call_vars, concurrent_vars, numeric_arg, numeric_ret, db_records>>
    /\ UNCHANGED <<processing_jobs, upload_dir, background_tasks, db>>

NextApi ==
    \/ PostAudioProcess
    \/ \E job_id \in JobIds : TaskCompleted(job_id)
    \/ \E job_id \in JobIds : TaskFailed(job_id)
    \/ \E job_id \in JobIds : GetAudioStatus(job_id)

SpecApi == InitApi /\ [][NextApi]_vars

\* the event loop runs every background task that has been added, and a
\* client that polls a job goes on polling it
SpecApiFair ==
    /\ SpecApi
    /\ \A job_id \in JobIds : WF_vars(ProcessAudioTask(job_id))
    /\ \A job_id \in JobIds : WF_vars(GetAudioStatus(job_id))

TerminalStatus == {"completed", "failed"}

StatusRank(status) ==
    CASE status = "pending" -> 0
      [] status = "processing" -> 1
      [] status \in TerminalStatus -> 2

\* one entry per job id, with a status of the state machine
OneEntryPerJob ==
    \A j \in DOMAIN processing_jobs :
        /\ processing_jobs[j].id = j
        /\ processing_jobs[j].status \in {"pending", "processing"} \cup TerminalStatus

\* a step keeps every entry, never moves its status backwards and never
\* changes a terminal status
MonotonicStep ==
    \A j \in DOMAIN processing_jobs :
        /\ j \in DOMAIN processing_jobs'
        /\ StatusRank(processing_jobs[j].status)
              <= StatusRank(processing_jobs'[j].status)
        /\ processing_jobs[j].status \in TerminalStatus
              => processing_jobs'[j].status = processing_jobs[j].status

\* C18: under every interleaving of uploads, background tasks and status
\* queries each job id has exactly one registry entry, whose status only moves
\* forward along pending -> processing -> {completed, failed} and never
\* changes once it is completed or failed.
C18_StatusMonotonic == []OneEntryPerJob /\ [][MonotonicStep]_vars

\* one job has completed, another one has failed, and no task is left
C18_Witness ==
    /\ \E j \in DOMAIN processing_jobs : processing_jobs[j].status = "completed"
    /\ \E j \in DOMAIN processing_jobs : processing_jobs[j].status = "failed"
    /\ background_tasks = {}

\* the job is registered and still processing
Processing(j) ==
    j \in DOMAIN processing_jobs /\ processing_jobs[j].status = "processing"

\* the job has ended / a status response says so
Ended(j) ==
    j \in DOMAIN processing_jobs /\ processing_jobs[j].status \in TerminalStatus

SeenEnded(j) ==
    /\ "body" \in DOMAIN response
    /\ response.body.id = j
    /\ response.body.status \in TerminalStatus

\* C19: every registered job whose task runs leaves "processing": it becomes
\* completed, or failed if transcription, extraction or the save raises, and
\* a client that polls its status eventually sees completed or failed.
C19_JobsEnd ==
    \A j \in JobIds : (Processing(j) ~> Ended(j)) /\ (Processing(j) ~> SeenEnded(j))

\* every exception of the pipeline has failed a job: a file that is no PCM
\* audio, a failing annotator, a save the database refuses
C19_Witness ==
    /\ \E j \in DOMAIN processing_jobs :
          /\ processing_jobs[j].status = "failed"
          /\ processing_jobs[j].error = ErrNotNull
    /\ \E j \in DOMAIN processing_jobs :
          /\ processing_jobs[j].status = "failed"
          /\ processing_jobs[j].error \in {ErrNotPcm, ErrAnnotator}

\* C20: the status response for a failed job carries the error message the
\* background task recorded.
C20_FailureMessageVisible ==
    (/\ "body" \in DOMAIN response
     /\ response.body.status = "failed")
        => /\ "error" \in DOMAIN response.body
           /\ response.body.error = processing_jobs[response.body.id].error

(***************************************************************************)
(* More properties of one call of extract_animal_info.                     *)
(***************************************************************************)
\* the weight entity at index k is at most the threshold away from the food
\* at index f
WithinOrAt(k, f) ==
    /\ entities[k].type = "weight"
    /\ entities[k].start - entities[f].start <= JoinThreshold
    /\ entities[f].start - entities[k].start <= JoinThreshold

\* C28: a weight entity whose start is exactly 20 positions from the first
\* food entity's start counts as within the threshold: on return the quantity
\* is the value of the first weight entity in sequence order that is at most
\* 20 positions away.
C28_ThresholdInclusive ==
    (pc = "return" /\ OfKind("food") # {}) =>
        LET f == First(OfKind("food"))
        IN  \A k \in Consumed :
                (WithinOrAt(k, f) /\ \A j \in 1 .. (k - 1) : ~WithinOrAt(j, f))
                    => result.feeding.quantity = entities[k].value

\* the kinds of entity no branch of the loop handles
InertKinds == {"location", "organization", "date", "time", "percentage"}

\* the scalar fields of a draft
Scalars(res) ==
    <<res.name, res.species, res.measurements, res.behavior, res.health_status,
      res.feeding, res.environment>>

\* the list without its entities of the inert kinds
WithoutInert(ents) ==
    LET Live(e) == e.type \notin InertKinds
    IN  SelectSeq(ents, Live)

\* the step that consumes an entity of an inert kind leaves the draft as it is
InertStep ==
    (pc = "for" /\ idx < Len(entities) /\ entities[idx + 1].type \in InertKinds)
        => result' = result

\* the draft returned has the scalar fields of the draft the pass and the
\* join make of the list without the inert entities, and no humidity
InertRemoved ==
    pc = "return" =>
        /\ result.environment.humidity = None
        /\ \E live \in {WithoutInert(entities)} :
              Scalars(result)
                  = Scalars(FeedingJoin(Pass(InitialResult(live), live, 1, text),
                                        live))

\* C29: entities of kind location, organization, date, time and percentage
\* change no scalar field of the draft: the step that consumes one leaves the
\* draft as it is, the draft returned has the scalar fields it would have
\* without them, and environment.humidity is absent after every pass.
C29_InertKinds == []InertRemoved /\ [][InertStep]_vars

\* a draft without humidity has been returned for a list that holds a
\* percentage and a location as well
C29_Witness ==
    /\ pc = "return"
    /\ \E k \in Consumed : entities[k].type = "percentage"
    /\ \E k \in Consumed : entities[k].type \in {"location", "organization"}
    /\ result.environment.humidity = None

\* C30: the join does not depend on the forward pass: whenever the first
\* weight entity of the sequence lies within the threshold of the first food
\* entity, before or after it, measurements.weight and feeding.quantity both
\* hold that entity's value.
C30_JoinIndependent ==
    (pc = "return" /\ OfKind("food") # {} /\ OfKind("weight") # {}) =>
        LET w == First(OfKind("weight"))
        IN  Within(w, First(OfKind("food"))) =>
                /\ result.measurements.weight = entities[w].value
                /\ result.feeding.quantity = entities[w].value

\* the first weight stands before the food, within the threshold, a second
\* weight with another value behind it, and both fields hold the first one's
C30_Witness ==
    /\ pc = "return"
    /\ OfKind("food") # {}
    /\ \E a, b \in OfKind("weight") :
          /\ a = First(OfKind("weight")) /\ a < First(OfKind("food")) /\ a < b
          /\ Within(a, First(OfKind("food")))
          /\ entities[a].value # entities[b].value
          /\ result.measurements.weight = entities[a].value
          /\ result.feeding.quantity = entities[a].value

(***************************************************************************)
(* The feeding payload and the Feeding table (models.py lines 75-83).      *)
(***************************************************************************)
\* C24: every feeding payload _prepare_db_records produces satisfies the
\* NOT NULL constraints of the Feeding table: food_type and quantity are both
\* non-null, also for a transcript with a food entity and no weight entity
\* within the join threshold.
C24_FeedingPayloadInsertable ==
    (Processed /\ db_records[1].feeding # None) =>
        /\ db_records[1].feeding[1].food_type # None
        /\ db_records[1].feeding[1].quantity # None

(***************************************************************************)
(* Jobs, their files and their rows.                                       *)
(***************************************************************************)
\* a step leaves the file that a task still to run will read as it is
TaskFilesKept ==
    \A task \in background_tasks :
        upload_dir'[task.file_path.name] = upload_dir[task.file_path.name]

\* C26: each job is processed on the bytes uploaded with it: when two
\* uploads carry the same filename, the second one does not change the file
\* the first job's background task reads, under any interleaving of the
\* handlers and the tasks.
C26_UploadsIsolated == [][TaskFilesKept]_vars

\* the entry of a completed job holds the results and its observation row is
\* in the database
CompletedHasRow ==
    \A j \in DOMAIN processing_jobs :
        processing_jobs[j].status = "completed" =>
            /\ {"transcription", "entities", "structured_data", "db_records"}
                  \subseteq DOMAIN processing_jobs[j]
            /\ "error" \notin DOMAIN processing_jobs[j]
            /\ processing_jobs[j].db_records.observation_id
                  \in 1 .. Len(db.observations)
            /\ LET row == db.observations[processing_jobs[j].db_records.observation_id]
               IN  /\ row.transcription = processing_jobs[j].transcription
                   /\ row.audio_file = processing_jobs[j].file_name
                   /\ row.animal_id = processing_jobs[j].db_records.animal_id

\* the step that completes a job is one that commits an observation row, and
\* a step that records an error does not complete the job
CompletedBySave ==
    \A j \in DOMAIN processing_jobs :
        /\ (processing_jobs[j].status # "completed"
                /\ processing_jobs'[j].status = "completed")
              => Len(db'.observations) = Len(db.observations) + 1
        /\ "error" \in DOMAIN processing_jobs'[j]
              => processing_jobs'[j].status = "failed"

\* C27: a job's status becomes "completed" only after process_audio has
\* returned and save_to_database has committed: a completed entry holds
\* transcription, entities and structured_data and its observation row is in
\* the database, and a job whose save failed is never completed.
C27_CompletedAfterSave == []CompletedHasRow /\ [][CompletedBySave]_vars

\* one job has completed with its row in the database while the save of
\* another one has failed
C27_Witness ==
    /\ \E j \in DOMAIN processing_jobs :
          /\ processing_jobs[j].status = "completed"
          /\ processing_jobs[j].db_records.observation_id = Len(db.observations)
    /\ \E j \in DOMAIN processing_jobs :
          /\ processing_jobs[j].status = "failed"
          /\ processing_jobs[j].error = ErrNotNull
    /\ Len(db.observations) = 1

(***************************************************************************)
(* save_to_database step by step (processing_pipeline.py lines 151-227),   *)
(* several calls side by side, each in the session it gets from get_db().  *)
(* A session is a transaction: what it flushes is its own until the        *)
(* commit, and a rollback discards it.  Animal rows carry their id here,   *)
(* because two sessions can hold a flushed row each.                       *)
(***************************************************************************)
MaxSaves == 2    \* calls of save_to_database

Saves == 1 .. MaxSaves

\* the db_records the pipeline hands to the save: an animal with a
\* measurement and a feeding, a feeding without quantity, nothing but the
\* observation
DbRecords ==
    {PipelineResults["a.wav", file].db_records : file \in {f \in Uploads : f.pcm}}

\* a statement the database does not execute: connection lost, database locked
ErrOperational == "database is locked"

\* a call that has not been made
IdleSession ==
    [pc |-> "idle", records |-> None, animal |-> None, new |-> <<>>,
     ret |-> Pending]

InitDb ==
    /\ InitLocals
    /\ Input(<<>>)
    /\ numeric_arg = <<>>
    /\ numeric_ret = Pending
    /\ db_records = None
    /\ ApiIdle
    /\ sessions = [c \in Saves |-> IdleSession]
    /\ threads = <<>>
    /\ extractor = EntityExtractor
    /\ instance = [g \in Getters |-> None]
    /\ constructed = [g \in Getters |-> 0]
    /\ callers = <<>>

\* what a step of a save leaves alone
beyond_save ==
    <<call_vars, numeric_arg, numeric_ret, db_records, processing_jobs,
      upload_dir, background_tasks, response, threads, extractor, instance,
      constructed, callers>>

\* lines 151-153: the call, with the result it is to save, gets its session
SaveToDatabase(c) ==
    /\ sessions[c].pc = "idle"
    /\ \E records \in DbRecords :
          sessions' = [sessions EXCEPT ![c].pc = "try", ![c].records = Some(records)]
    /\ UNCHANGED <<db, beyond_save>>

\* the ids of the committed Animal rows with the name and species of records
SameAnimal(records) ==
    {db.animals[k].id : k \in {j \in 1 .. Len(db.animals) :
        /\ db.animals[j].name = records.animal.name
        /\ db.animals[j].species = records.animal.species}}

\* lines 159-162: the query sees the committed rows; first() of a query
\* without ORDER BY is any of the rows that match
QueryAnimal(c) ==
    /\ sessions[c].pc = "try"
    /\ LET found == SameAnimal(sessions[c].records[1])
       IN  \E animal \in (IF found = {} THEN {None} ELSE {Some(id) : id \in found}) :
              sessions' = [sessions EXCEPT ![c].pc = "queried", ![c].animal = animal]
    /\ UNCHANGED <<db, beyond_save>>

\* the id the database gives the next Animal row: one more than every id
\* of a row committed or flushed
NextAnimalId ==
    LET ids == {db.animals[k].id : k \in 1 .. Len(db.animals)}
                  \cup {sessions[c].new[1].id : c \in {d \in Saves : sessions[d].new # <<>>}}
    IN  IF ids = {} THEN 1 ELSE 1 + (CHOOSE m \in ids : \A i \in ids : i <= m)

\* lines 164-211: `if not animal` adds the Animal and flushes it, which gives
\* it its id; the Observation, Measurement and Feeding are added to the
\* session, to be flushed by the commit
AddRows(c) ==
    /\ sessions[c].pc = "queried"
    /\ sessions' =
          IF sessions[c].animal = None
          THEN [sessions EXCEPT
                   ![c].pc = "added",
                   ![c].animal = Some(NextAnimalId),
                   ![c].new = <<[id |-> NextAnimalId,
                                 name |-> sessions[c].records[1].animal.name,
                                 species |-> sessions[c].records[1].animal.species]>>]
          ELSE [sessions EXCEPT ![c].pc = "added"]
    /\ UNCHANGED <<db, beyond_save>>

\* models.py lines 80-81: a Feeding row the table does not take
NullViolation(records) ==
    /\ records.feeding # None
    /\ (records.feeding[1].food_type = None \/ records.feeding[1].quantity = None)

\* lines 214-220 and 226-227: the commit writes the rows of the session, the
\* call returns the two ids and the session is closed
Commit(c) ==
    /\ sessions[c].pc = "added"
    /\ LET records == sessions[c].records[1]
           animal_id == sessions[c].animal[1]
           observation_id == Len(db.observations) + 1
       IN  /\ ~NullViolation(records)
           /\ db' =
                 [animals |-> db.animals \o sessions[c].new,
                  observations |->
                     Append(db.observations,
                            [id |-> observation_id,
                             animal_id |-> animal_id,
                             audio_file |-> records.observation.audio_file,
                             transcription |-> records.observation.transcription]),
                  measurements |->
                     IF records.measurement # None
                     THEN Append(db.measurements,
                                 [animal_id |-> animal_id,
                                  weight |-> records.measurement[1].weight])
                     ELSE db.measurements,
                  feedings |->
                     IF records.feeding # None
                     THEN Append(db.feedings,
                                 [animal_id |-> animal_id,
                                  food_type |-> records.feeding[1].food_type,
                                  quantity |-> records.feeding[1].quantity])
                     ELSE db.feedings]
           /\ sessions' =
                 [sessions EXCEPT
                     ![c].pc = "closed", ![c].new = <<>>,
                     ![c].ret = Returned([animal_id |-> animal_id,
                                          observation_id |-> observation_id])]
    /\ UNCHANGED beyond_save

\* the exceptions the step of the call at hand can raise
SaveErrors(c) ==
    {ErrOperational}
        \cup (IF sessions[c].pc = "added" /\ NullViolation(sessions[c].records[1])
              THEN {ErrNotNull} ELSE {})

\* an except branch whose rollback leaves the flushed Animal in the table
Except_FlushedRowStays(c) ==
    /\ sessions[c].pc \in {"try", "queried", "added"}
    /\ \E e \in SaveErrors(c) :
          sessions' = [sessions EXCEPT ![c].pc = "closed", ![c].new = <<>>,
                                       ![c].ret = Raised(e)]
    /\ db' = [db EXCEPT !.animals = @ \o sessions[c].new]
    /\ UNCHANGED beyond_save

\* lines 222-227: a statement of the try block raises; the rollback discards
\* what the session has flushed and added, the exception is raised again and
\* the session is closed
Except(c) ==
    /\ sessions[c].pc \in {"try", "queried", "added"}
    /\ \E e \in SaveErrors(c) :
          sessions' = [sessions EXCEPT ![c].pc = "closed", ![c].new = <<>>,
                                       ![c].ret = Raised(e)]
    /\ UNCHANGED <<db, beyond_save>>

NextDb ==
    \/ \E c \in Saves : SaveToDatabase(c)
    \/ \E c \in Saves : QueryAnimal(c)
    \/ \E c \in Saves : AddRows(c)
    \/ \E c \in Saves : Commit(c)
    \/ \E c \in Saves : Except(c)

SpecDb == InitDb /\ [][NextDb]_vars

\* C21: find-or-create keeps (name, species) unique: starting from an empty
\* animals table there is at most one Animal row per (name, species) pair
\* after any number of saves, also when two saves for the same pair run side
\* by side in separate sessions.
C21_AnimalsUnique ==
    \A a, b \in 1 .. Len(db.animals) :
        (db.animals[a].name = db.animals[b].name
            /\ db.animals[a].species = db.animals[b].species) => a = b

\* the calls that have returned / raised
ReturnedSaves == {c \in Saves : "return" \in DOMAIN sessions[c].ret}
RaisedSaves == {c \in Saves : "raise" \in DOMAIN sessions[c].ret}

\* the rows of the database are those of the calls that returned: one
\* observation each, with the animal it names, a measurement and a feeding
\* for each payload, and no Animal but the ones these calls name; a call
\* that raised has a closed session that holds nothing
AllOrNothing ==
    /\ Len(db.observations) = Cardinality(ReturnedSaves)
    /\ Len(db.measurements)
          = Cardinality({c \in ReturnedSaves : sessions[c].records[1].measurement # None})
    /\ Len(db.feedings)
          = Cardinality({c \in ReturnedSaves : sessions[c].records[1].feeding # None})
    /\ \A k \in 1 .. Len(db.animals) :
          \E c \in ReturnedSaves : sessions[c].ret.return.animal_id = db.animals[k].id
    /\ \A c \in ReturnedSaves :
          /\ sessions[c].pc = "closed"
          /\ \E k \in 1 .. Len(db.animals) :
                /\ db.animals[k].id = sessions[c].ret.return.animal_id
                /\ db.animals[k].name = sessions[c].records[1].animal.name
                /\ db.animals[k].species = sessions[c].records[1].animal.species
          /\ sessions[c].ret.return.observation_id \in 1 .. Len(db.observations)
          /\ db.observations[sessions[c].ret.return.observation_id].animal_id
                = sessions[c].ret.return.animal_id
    /\ \A c \in RaisedSaves : sessions[c].pc = "closed" /\ sessions[c].new = <<>>

\* the step in which a call raises leaves the database as it is
RaiseKeepsDb ==
    (\E c \in Saves : sessions[c].ret = Pending /\ "raise" \in DOMAIN sessions'[c].ret)
        => db' = db

\* C25: save_to_database is all-or-nothing: when a step raises, none of the
\* call's rows persist, not even an Animal the call created and flushed, the
\* session is closed and the exception reaches the caller; on success the
\* Animal (if new), the Observation and every non-null Measurement and
\* Feeding payload are committed together.
C25_AllOrNothing == []AllOrNothing /\ [][RaiseKeepsDb]_vars

\* a call has flushed a new Animal and then raised on the NOT NULL
\* constraint, another call has returned, and no row has the id of the
\* Animal the first one flushed
C25_Witness ==
    /\ \E c \in RaisedSaves :
          /\ sessions[c].ret = Raised(ErrNotNull)
          /\ sessions[c].animal # None
          /\ \A k \in 1 .. Len(db.animals) : db.animals[k].id # sessions[c].animal[1]
    /\ \E c \in ReturnedSaves : sessions[c].records[1].feeding # None
    /\ Len(db.animals) = 1

(***************************************************************************)
(* Worker threads that call extract_animal_info on the one extractor       *)
(* (benchmark.py lines 223-224 through ProcessingPipeline.process_audio).  *)
(* Each thread has the locals of its own call; the extractor is shared.    *)
(***************************************************************************)
MaxThreads == 2    \* worker threads

Threads == 1 .. MaxThreads

\* the transcripts of the threads: a name with a weight, a food with a
\* weight in reach of it, a species
ThreadTranscripts == {<<W_Zmey, W_kg42>>, <<W_myaso, W_kg2c5>>, <<W_piton>>}

\* what the annotator and the parsers and patterns of the extractor find
ThreadSpans(t) == NerSpans(threads[t].says)
ThreadMatches(t) ==
    [p \in extractor.parsers \cup extractor.patterns |-> Findall(threads[t].says, p)]

InitThreads ==
    /\ InitLocals
    /\ Input(<<>>)
    /\ numeric_arg = <<>>
    /\ numeric_ret = Pending
    /\ db_records = None
    /\ ApiIdle
    /\ sessions = <<>>
    /\ threads \in [Threads ->
          {[says |-> ws, text |-> Join(ws), pc |-> "call", entities |-> <<>>,
            idx |-> 0, result |-> None] : ws \in ThreadTranscripts}]
    /\ extractor = EntityExtractor
    /\ instance = [g \in Getters |-> None]
    /\ constructed = [g \in Getters |-> 0]
    /\ callers = <<>>

\* what a step of a thread leaves alone: everything but its locals
beyond_thread ==
    <<call_vars, numeric_arg, numeric_ret, db_records, api_vars, sessions,
      extractor, instance, constructed, callers>>

\* lines 309-332: the entities of the text and the empty draft
ThreadExtract(t) ==
    /\ threads[t].pc = "call"
    /\ \E ents \in {extract_entities(threads[t].text, ThreadSpans(t), ThreadMatches(t))} :
          threads' = [threads EXCEPT ![t].pc = "for", ![t].entities = ents,
                                     ![t].result = Some(InitialResult(ents))]
    /\ UNCHANGED beyond_thread

\* a loop that writes the one draft all the threads have in common
ThreadLoop_SharedDraft(t) ==
    /\ threads[t].pc = "for"
    /\ threads[t].idx < Len(threads[t].entities)
    /\ \E res \in {ForEntity(threads[t].result[1],
                             threads[t].entities[threads[t].idx + 1],
                             threads[t].text)} :
          threads' =
              [u \in Threads |->
                  IF u = t
                  THEN [threads[t] EXCEPT !.idx = @ + 1, !.result = Some(res)]
                  ELSE IF threads[u].result = None THEN threads[u]
                  ELSE [threads[u] EXCEPT
                           !.result = Some([res EXCEPT !.entities =
                                               threads[u].result[1].entities])]]
    /\ UNCHANGED beyond_thread

\* lines 335-378: one iteration of the loop, on the locals of the thread
ThreadLoop(t) ==
    /\ threads[t].pc = "for"
    /\ threads[t].idx < Len(threads[t].entities)
    /\ threads' =
          [threads EXCEPT
              ![t].idx = @ + 1,
              ![t].result = Some(ForEntity(threads[t].result[1],
                                           threads[t].entities[threads[t].idx + 1],
                                           threads[t].text))]
    /\ UNCHANGED beyond_thread

\* lines 380-389: the feeding join and the return
ThreadReturn(t) ==
    /\ threads[t].pc = "for"
    /\ threads[t].idx = Len(threads[t].entities)
    /\ threads' =
          [threads EXCEPT
              ![t].pc = "return",
              ![t].result = Some(FeedingJoin(threads[t].result[1],
                                             threads[t].entities))]
    /\ UNCHANGED beyond_thread

NextThreads ==
    \/ \E t \in Threads : ThreadExtract(t)
    \/ \E t \in Threads : ThreadLoop(t)
    \/ \E t \in Threads : ThreadReturn(t)

SpecThreads == InitThreads /\ [][NextThreads]_vars

\* the draft of the call run alone, by text
AloneDrafts ==
    [ws \in ThreadTranscripts |->
        extract_animal_info(Join(ws), NerSpans(ws),
                            [p \in Parsers \cup Patterns |-> Findall(ws, p)])]

\* every draft returned is the one of the call run alone, and the tables of
\* the extractor are as __init__ left them
ReturnsAsAlone ==
    /\ \A t \in Threads :
          threads[t].pc = "return" => threads[t].result[1] = AloneDrafts[threads[t].says]
    /\ extractor = EntityExtractor

\* a step changes the locals of one thread only
OwnDraft ==
    \A t, u \in Threads :
        (threads'[t] # threads[t] /\ threads'[u] # threads[u]) => t = u

\* C22: concurrent transcripts do not interfere: under every interleaving of
\* the threads each call returns the draft it would return when run alone,
\* each call works on its own draft, and no call modifies the shared lexicon
\* tables or compiled parsers.
C22_ThreadsIsolated == []ReturnsAsAlone /\ [][OwnDraft]_vars

\* two threads are in the middle of their loops on different texts, each
\* with a field the other's draft does not have
C22_Witness ==
    \E t, u \in Threads :
        /\ threads[t].pc = "for" /\ threads[t].idx = 1
        /\ threads[u].pc = "for" /\ threads[u].idx = 1
        /\ threads[t].text # threads[u].text
        /\ threads[t].result[1].name # None /\ threads[u].result[1].name = None
        /\ threads[u].result[1].feeding.food_type # None

(***************************************************************************)
(* get_extractor, get_recognizer and get_pipeline called by several        *)
(* threads.  The three functions are alike: a module global that starts as *)
(* None, `if _x is None: _x = X()`, `return _x`, and no lock; a thread can *)
(* be switched between the test and the assignment, which follows the      *)
(* whole constructor.  An object is named by its class and the number of   *)
(* objects of the class constructed so far.                                *)
(***************************************************************************)
MaxCallers == 2    \* threads that call a getter

Callers == 1 .. MaxCallers

InitSingleton ==
    /\ InitLocals
    /\ Input(<<>>)
    /\ numeric_arg = <<>>
    /\ numeric_ret = Pending
    /\ db_records = None
    /\ ApiIdle
    /\ sessions = <<>>
    /\ threads = <<>>
    /\ extractor = EntityExtractor
    /\ instance = [g \in Getters |-> None]
    /\ constructed = [g \in Getters |-> 0]
    /\ callers \in [Callers ->
          {[pc |-> "if", getter |-> g, ret |-> Pending] : g \in Getters}]

\* what a step of a getter leaves alone
beyond_getter ==
    <<call_vars, numeric_arg, numeric_ret, db_records, api_vars, sessions,
      threads, extractor>>

\* `if _x is None:` (entity_extraction.py line 397 and the like)
GetterTest(t) ==
    /\ callers[t].pc = "if"
    /\ callers' =
          [callers EXCEPT ![t].pc =
              IF instance[callers[t].getter] = None THEN "construct" ELSE "return"]
    /\ UNCHANGED <<instance, constructed, beyond_getter>>

\* `_x = X()` (line 398): a new object is constructed and assigned
Construct(t) ==
    /\ callers[t].pc = "construct"
    /\ LET g == callers[t].getter
       IN  /\ constructed' = [constructed EXCEPT ![g] = @ + 1]
           /\ instance' = [instance EXCEPT ![g] = Some(constructed[g] + 1)]
    /\ callers' = [callers EXCEPT ![t].pc = "return"]
    /\ UNCHANGED beyond_getter

\* `return _x` (line 399): the global as it is now
GetterReturn(t) ==
    /\ callers[t].pc = "return"
    /\ callers' =
          [callers EXCEPT ![t].pc = "done",
                          ![t].ret = Returned(instance[callers[t].getter][1])]
    /\ UNCHANGED <<instance, constructed, beyond_getter>>

NextSingleton ==
    \/ \E t \in Callers : GetterTest(t)
    \/ \E t \in Callers : Construct(t)
    \/ \E t \in Callers : GetterReturn(t)

SpecSingleton == InitSingleton /\ [][NextSingleton]_vars

\* C23: get_extractor(), get_recognizer() and get_pipeline() are singletons:
\* each constructs its object at most once per process and returns that same
\* instance to every caller, also to callers on different threads that make
\* their first call at the same time.
C23_Singletons ==
    /\ \A g \in Getters : constructed[g] <= 1
    /\ \A t, u \in Callers :
          (callers[t].getter = callers[u].getter
              /\ callers[t].pc = "done" /\ callers[u].pc = "done")
                => callers[t].ret = callers[u].ret

====
